---- MODULE Spec2Model ----
(***************************************************************************)
(* fix_menu_corruption.py: one run of the script that repairs menu.ts.     *)
(* A document is a sequence of characters (one-character strings).  The    *)
(* run reads the file, applies seven rewrite passes in order, and writes   *)
(* the file back when the content differs from what was read.              *)
(***************************************************************************)
EXTENDS Integers, Sequences, FiniteSets, TLC

VARIABLES
  pc,                \* where the run is
  disk,              \* the characters of menu.ts on disk
  content,           \* the working copy
  original_content,  \* the snapshot taken after the read
  stdout,            \* the lines printed
  syscalls,          \* the file operations issued so far
  initial_file,      \* history: the file as the run found it
  before,            \* history: content as the latest pass received it
  passes_changed     \* history: the passes that changed content

vars ==
  <<pc, disk, content, original_content, stdout, syscalls, initial_file,
    before, passes_changed>>

(***************************************************************************)
(* Character classes of the regular expressions.                           *)
(***************************************************************************)
Lower ==
  {"a","b","c","d","e","f","g","h","i","j","k","l","m",
   "n","o","p","q","r","s","t","u","v","w","x","y","z"}

Upper ==
  {"A","B","C","D","E","F","G","H","I","J","K","L","M",
   "N","O","P","Q","R","S","T","U","V","W","X","Y","Z"}

Digit == {"0","1","2","3","4","5","6","7","8","9"}

\* [a-zA-Z0-9]
Alnum == Lower \cup Upper \cup Digit

\* [a-zA-Z0-9-]
AlnumHyphen == Alnum \cup {"-"}

\* [a-zA-Z-]
LetterHyphen == Lower \cup Upper \cup {"-"}

\* \s (the ASCII members of the class)
Whitespace == {" ", "\t", "\n", "\r", "\f"}

\* \w, the class that \b is defined by
WordChars == Alnum \cup {"_"}

\* Every character of the documents.
AllChars ==
  WordChars \cup Whitespace \cup
    {"<", ">", "/", "-", "=", "\"", ":", ".", "#"}

(***************************************************************************)
(* The matching engine of re.sub and str.replace.                          *)
(***************************************************************************)
\* The character at position i, or "" outside the document.
At(s, i) == IF 1 <= i /\ i <= Len(s) THEN s[i] ELSE ""

\* \b at position i: exactly one of the characters before and at i is a
\* word character.
WordBoundary(s, i) == (At(s, i - 1) \in WordChars) # (At(s, i) \in WordChars)

\* A greedy C+ or C* starting at i: the first position at or after i whose
\* character is not in C.  In every pattern of the script the class that
\* may follow a repetition is disjoint from the repeated class (or nothing
\* follows), so backtracking can never shorten the run.
RunEnd(s, i, C) ==
  CHOOSE e \in i..(Len(s) + 1) :
    /\ \A k \in i..(e - 1) : s[k] \in C
    /\ At(s, e) \notin C

\* The literal lit occurs in s at position i.
LiteralAt(s, i, lit) ==
  /\ i + Len(lit) - 1 <= Len(s)
  /\ \A k \in 1..Len(lit) : s[i + k - 1] = lit[k]

NoMatch == <<>>

\* re.sub / str.replace from position i on.  m[j] is NoMatch, or <<e, r>>
\* when the pattern matches s[j..e-1] and r is the replacement for it.  The
\* scan takes the leftmost match at or after i, copies the text before it,
\* emits r and goes on at e; matches never overlap, and no pattern of the
\* script matches the empty string.
RECURSIVE Substitute(_, _, _)
Substitute(s, m, i) ==
  LET starts == {j \in i..Len(s) : m[j] # NoMatch}
  IN  IF starts = {} THEN SubSeq(s, i, Len(s))
      ELSE LET j == CHOOSE x \in starts : \A y \in starts : x <= y
           IN  SubSeq(s, i, j - 1) \o m[j][2] \o Substitute(s, m, m[j][1])

(***************************************************************************)
(* Pass 1: re.sub(r'</\s+([a-zA-Z0-9]+)>', r'</\1>', content)              *)
(***************************************************************************)
\* A variant with \s in place of \s+: one whitespace character only.
MatchClosingTag_OneSpace(s, i) ==
  IF At(s, i) = "<" /\ At(s, i + 1) = "/" /\ At(s, i + 2) \in Whitespace
  THEN LET w == i + 3
           e == RunEnd(s, w, Alnum)
       IN  IF e > w /\ At(s, e) = ">"
           THEN <<e + 1, <<"<", "/">> \o SubSeq(s, w, e - 1) \o <<">">> >>
           ELSE NoMatch
  ELSE NoMatch

MatchClosingTag(s, i) ==
  IF At(s, i) = "<" /\ At(s, i + 1) = "/"
  THEN LET w == RunEnd(s, i + 2, Whitespace)
           e == RunEnd(s, w, Alnum)
       IN  IF w > i + 2 /\ e > w /\ At(s, e) = ">"
           THEN <<e + 1, <<"<", "/">> \o SubSeq(s, w, e - 1) \o <<">">> >>
           ELSE NoMatch
  ELSE NoMatch

Pass1(s) ==
  IF s = <<>> THEN <<>>
  ELSE Substitute(s, [i \in 1..Len(s) |-> MatchClosingTag(s, i)], 1)

(***************************************************************************)
(* Pass 2: re.sub(r'<\s+([a-zA-Z0-9]+)', r'<\1', content)                  *)
(***************************************************************************)
\* A variant whose group also takes '/': ([a-zA-Z0-9/]+).
MatchOpeningTag_SlashInName(s, i) ==
  IF At(s, i) = "<"
  THEN LET w == RunEnd(s, i + 1, Whitespace)
           e == RunEnd(s, w, Alnum \cup {"/"})
       IN  IF w > i + 1 /\ e > w
           THEN <<e, <<"<">> \o SubSeq(s, w, e - 1)>>
           ELSE NoMatch
  ELSE NoMatch

MatchOpeningTag(s, i) ==
  IF At(s, i) = "<"
  THEN LET w == RunEnd(s, i + 1, Whitespace)
           e == RunEnd(s, w, Alnum)
       IN  IF w > i + 1 /\ e > w
           THEN <<e, <<"<">> \o SubSeq(s, w, e - 1)>>
           ELSE NoMatch
  ELSE NoMatch

Pass2(s) ==
  IF s = <<>> THEN <<>>
  ELSE Substitute(s, [i \in 1..Len(s) |-> MatchOpeningTag(s, i)], 1)

(***************************************************************************)
(* Pass 3: re.sub(r'\b([a-zA-Z0-9]+)\s-\s([a-zA-Z0-9]+)=', r'\1-\2=', ..)  *)
(***************************************************************************)
MatchHyphenAttr(s, i) ==
  IF WordBoundary(s, i) /\ At(s, i) \in Alnum
  THEN LET a == RunEnd(s, i, Alnum)
           e == RunEnd(s, a + 3, Alnum)
       IN  IF /\ At(s, a) \in Whitespace
              /\ At(s, a + 1) = "-"
              /\ At(s, a + 2) \in Whitespace
              /\ e > a + 3
              /\ At(s, e) = "="
           THEN <<e + 1,
                  SubSeq(s, i, a - 1) \o <<"-">> \o SubSeq(s, a + 3, e - 1)
                    \o <<"=">> >>
           ELSE NoMatch
  ELSE NoMatch

Pass3(s) ==
  IF s = <<>> THEN <<>>
  ELSE Substitute(s, [i \in 1..Len(s) |-> MatchHyphenAttr(s, i)], 1)

(***************************************************************************)
(* Pass 4: re.sub(r'\b([a-zA-Z0-9-]+)\s=\s"', r'\1="', content)            *)
(***************************************************************************)
\* A variant whose replacement is r'\1=': the quote is lost.
MatchAttrEquals_DropsQuote(s, i) ==
  IF WordBoundary(s, i) /\ At(s, i) \in AlnumHyphen
  THEN LET a == RunEnd(s, i, AlnumHyphen)
       IN  IF /\ At(s, a) \in Whitespace
              /\ At(s, a + 1) = "="
              /\ At(s, a + 2) \in Whitespace
              /\ At(s, a + 3) = "\""
           THEN <<a + 4, SubSeq(s, i, a - 1) \o <<"=">> >>
           ELSE NoMatch
  ELSE NoMatch

MatchAttrEquals(s, i) ==
  IF WordBoundary(s, i) /\ At(s, i) \in AlnumHyphen
  THEN LET a == RunEnd(s, i, AlnumHyphen)
       IN  IF /\ At(s, a) \in Whitespace
              /\ At(s, a + 1) = "="
              /\ At(s, a + 2) \in Whitespace
              /\ At(s, a + 3) = "\""
           THEN <<a + 4, SubSeq(s, i, a - 1) \o <<"=", "\"">> >>
           ELSE NoMatch
  ELSE NoMatch

Pass4(s) ==
  IF s = <<>> THEN <<>>
  ELSE Substitute(s, [i \in 1..Len(s) |-> MatchAttrEquals(s, i)], 1)

(***************************************************************************)
(* Pass 5: for prop in known_css_props:                                    *)
(*   re.sub(r'\b' + prop + r'\s-\s([a-zA-Z-]+)',                           *)
(*          lambda m: f"{prop}-{m.group(1)}", content)                     *)
(***************************************************************************)
known_css_props ==
  << <<"b","o","x">>,
     <<"t","e","x","t">>,
     <<"b","o","r","d","e","r">>,
     <<"z">>,
     <<"p","o","i","n","t","e","r">>,
     <<"b","a","c","k","g","r","o","u","n","d">>,
     <<"m","a","r","g","i","n">>,
     <<"p","a","d","d","i","n","g">>,
     <<"f","l","e","x">>,
     <<"g","r","i","d">>,
     <<"a","l","i","g","n">>,
     <<"j","u","s","t","i","f","y">>,
     <<"o","v","e","r","f","l","o","w">>,
     <<"f","o","n","t">>,
     <<"l","i","n","e">> >>

\* A variant whose pattern lacks the leading \b.
MatchCssProp_NoBoundary(s, i, prop) ==
  IF LiteralAt(s, i, prop)
  THEN LET a == i + Len(prop)
           e == RunEnd(s, a + 3, LetterHyphen)
       IN  IF /\ At(s, a) \in Whitespace
              /\ At(s, a + 1) = "-"
              /\ At(s, a + 2) \in Whitespace
              /\ e > a + 3
           THEN <<e, prop \o <<"-">> \o SubSeq(s, a + 3, e - 1)>>
           ELSE NoMatch
  ELSE NoMatch

MatchCssProp(s, i, prop) ==
  IF WordBoundary(s, i) /\ LiteralAt(s, i, prop)
  THEN LET a == i + Len(prop)
           e == RunEnd(s, a + 3, LetterHyphen)
       IN  IF /\ At(s, a) \in Whitespace
              /\ At(s, a + 1) = "-"
              /\ At(s, a + 2) \in Whitespace
              /\ e > a + 3
           THEN <<e, prop \o <<"-">> \o SubSeq(s, a + 3, e - 1)>>
           ELSE NoMatch
  ELSE NoMatch

FixCssProp(s, prop) ==
  Substitute(s, [i \in 1..Len(s) |-> MatchCssProp(s, i, prop)], 1)

\* Iterations lo..hi of the loop over known_css_props, in the order of the
\* list, each on the result of the one before.  The iterations are grouped
\* in halves, and the result of the first half is looked at before the
\* second starts, only to keep the evaluation shallow.
RECURSIVE FixCssProps(_, _, _)
FixCssProps(s, lo, hi) ==
  IF lo = hi THEN FixCssProp(s, known_css_props[lo])
  ELSE LET mid == (lo + hi) \div 2
           half == FixCssProps(s, lo, mid)
       IN  IF half = <<>> THEN <<>> ELSE FixCssProps(half, mid + 1, hi)

Pass5(s) == IF s = <<>> THEN <<>> ELSE FixCssProps(s, 1, Len(known_css_props))

(***************************************************************************)
(* Passes 6 and 7: chains of content.replace(old, new)                     *)
(***************************************************************************)
selector_strings ==
  <<
    << <<".","m","p","-","m","o","d","e"," ","-"," ","b","t","n">>,
       <<".","m","p","-","m","o","d","e","-","b","t","n">> >>,
    << <<"#","m","p","-","j","o","i","n"," ","-"," ","r","o","o","m"," ","-"," ","m","o","d","a","l">>,
       <<"#","m","p","-","j","o","i","n","-","r","o","o","m","-","m","o","d","a","l">> >>,
    << <<"#","m","p","-","r","o","o","m"," ","-"," ","d","e","t","a","i","l","s">>,
       <<"#","m","p","-","r","o","o","m","-","d","e","t","a","i","l","s">> >>,
    << <<"r","o","o","m"," ","-"," ","d","e","t","a","i","l","s">>,
       <<"r","o","o","m","-","d","e","t","a","i","l","s">> >>,
    << <<"m","p"," ","-"," ","r","o","o","m">>,
       <<"m","p","-","r","o","o","m">> >>,
    << <<"m","p"," ","-"," ","b","t","n">>,
       <<"m","p","-","b","t","n">> >>,
    << <<"m","p"," ","-"," ","c","r","e","a","t","e">>,
       <<"m","p","-","c","r","e","a","t","e">> >>,
    << <<"m","p"," ","-"," ","c","o","n","n","e","c","t","i","o","n">>,
       <<"m","p","-","c","o","n","n","e","c","t","i","o","n">> >>,
    << <<"m","p"," ","-"," ","s","t","a","t","u","s">>,
       <<"m","p","-","s","t","a","t","u","s">> >>,
    << <<"m","p"," ","-"," ","r","o","o","m","s">>,
       <<"m","p","-","r","o","o","m","s">> >>,
    << <<"b","a","t","t","l","e"," ","-"," ","b","t","n">>,
       <<"b","a","t","t","l","e","-","b","t","n">> >>,
    << <<"p","r","o","g","r","e","s","s"," ","-"," ","t","a","b">>,
       <<"p","r","o","g","r","e","s","s","-","t","a","b">> >>,
    << <<"p","r","o","g","r","e","s","s"," ","-"," ","c","o","n","t","e","n","t">>,
       <<"p","r","o","g","r","e","s","s","-","c","o","n","t","e","n","t">> >>,
    << <<"p","r","o","g","r","e","s","s"," ","-"," ","l","e","v","e","l">>,
       <<"p","r","o","g","r","e","s","s","-","l","e","v","e","l">> >>,
    << <<"p","r","o","g","r","e","s","s"," ","-"," ","s","t","a","t">>,
       <<"p","r","o","g","r","e","s","s","-","s","t","a","t">> >>,
    << <<"p","r","o","g","r","e","s","s"," ","-"," ","b","o","n","u","s">>,
       <<"p","r","o","g","r","e","s","s","-","b","o","n","u","s">> >>,
    << <<"p","r","o","g","r","e","s","s"," ","-"," ","n","e","x","t">>,
       <<"p","r","o","g","r","e","s","s","-","n","e","x","t">> >>,
    << <<"p","r","o","g","r","e","s","s"," ","-"," ","x","p">>,
       <<"p","r","o","g","r","e","s","s","-","x","p">> >>,
    << <<"q","u","e","s","t"," ","-"," ","c","a","r","d">>,
       <<"q","u","e","s","t","-","c","a","r","d">> >>,
    << <<"q","u","e","s","t"," ","-"," ","h","e","a","d","e","r">>,
       <<"q","u","e","s","t","-","h","e","a","d","e","r">> >>,
    << <<"q","u","e","s","t"," ","-"," ","n","a","m","e">>,
       <<"q","u","e","s","t","-","n","a","m","e">> >>,
    << <<"q","u","e","s","t"," ","-"," ","s","t","a","t","u","s">>,
       <<"q","u","e","s","t","-","s","t","a","t","u","s">> >>,
    << <<"q","u","e","s","t"," ","-"," ","d","e","s","c","r","i","p","t","i","o","n">>,
       <<"q","u","e","s","t","-","d","e","s","c","r","i","p","t","i","o","n">> >>,
    << <<"q","u","e","s","t"," ","-"," ","p","r","o","g","r","e","s","s">>,
       <<"q","u","e","s","t","-","p","r","o","g","r","e","s","s">> >>,
    << <<"q","u","e","s","t"," ","-"," ","r","e","w","a","r","d","s">>,
       <<"q","u","e","s","t","-","r","e","w","a","r","d","s">> >>,
    << <<"q","u","e","s","t"," ","-"," ","r","e","w","a","r","d">>,
       <<"q","u","e","s","t","-","r","e","w","a","r","d">> >>,
    << <<"a","c","h","i","e","v","e","m","e","n","t"," ","-"," ","c","a","r","d">>,
       <<"a","c","h","i","e","v","e","m","e","n","t","-","c","a","r","d">> >>,
    << <<"a","c","h","i","e","v","e","m","e","n","t"," ","-"," ","h","e","a","d","e","r">>,
       <<"a","c","h","i","e","v","e","m","e","n","t","-","h","e","a","d","e","r">> >>,
    << <<"a","c","h","i","e","v","e","m","e","n","t"," ","-"," ","i","c","o","n">>,
       <<"a","c","h","i","e","v","e","m","e","n","t","-","i","c","o","n">> >>,
    << <<"a","c","h","i","e","v","e","m","e","n","t"," ","-"," ","n","a","m","e">>,
       <<"a","c","h","i","e","v","e","m","e","n","t","-","n","a","m","e">> >>,
    << <<"a","c","h","i","e","v","e","m","e","n","t"," ","-"," ","t","i","e","r">>,
       <<"a","c","h","i","e","v","e","m","e","n","t","-","t","i","e","r">> >>,
    << <<"a","c","h","i","e","v","e","m","e","n","t"," ","-"," ","d","e","s","c","r","i","p","t","i","o","n">>,
       <<"a","c","h","i","e","v","e","m","e","n","t","-","d","e","s","c","r","i","p","t","i","o","n">> >>,
    << <<"a","c","h","i","e","v","e","m","e","n","t"," ","-"," ","r","e","w","a","r","d">>,
       <<"a","c","h","i","e","v","e","m","e","n","t","-","r","e","w","a","r","d">> >>,
    << <<"a","c","h","i","e","v","e","m","e","n","t"," ","-"," ","s","t","a","t","u","s">>,
       <<"a","c","h","i","e","v","e","m","e","n","t","-","s","t","a","t","u","s">> >>,
    << <<"a","c","h","i","e","v","e","m","e","n","t"," ","-"," ","c","a","t","e","g","o","r","y">>,
       <<"a","c","h","i","e","v","e","m","e","n","t","-","c","a","t","e","g","o","r","y">> >>,
    << <<"m","a","p"," ","-"," ","c","a","r","d">>,
       <<"m","a","p","-","c","a","r","d">> >>,
    << <<"m","a","p"," ","-"," ","g","r","i","d">>,
       <<"m","a","p","-","g","r","i","d">> >>,
    << <<"m","a","p"," ","-"," ","s","e","l","e","c","t","i","o","n">>,
       <<"m","a","p","-","s","e","l","e","c","t","i","o","n">> >>,
    << <<"p","a","n","e","l"," ","-"," ","c","o","n","t","e","n","t">>,
       <<"p","a","n","e","l","-","c","o","n","t","e","n","t">> >>,
    << <<"p","a","n","e","l"," ","-"," ","t","i","t","l","e">>,
       <<"p","a","n","e","l","-","t","i","t","l","e">> >>,
    << <<"p","a","n","e","l"," ","-"," ","c","l","o","s","e">>,
       <<"p","a","n","e","l","-","c","l","o","s","e">> >>,
    << <<"p","a","n","e","l"," ","-"," ","b","t","n">>,
       <<"p","a","n","e","l","-","b","t","n">> >>,
    << <<"p","a","n","e","l"," ","-"," ","b","u","t","t","o","n","s">>,
       <<"p","a","n","e","l","-","b","u","t","t","o","n","s">> >>,
    << <<"p","a","n","e","l"," ","-"," ","h","e","a","d","e","r">>,
       <<"p","a","n","e","l","-","h","e","a","d","e","r">> >>,
    << <<"p","a","n","e","l"," ","-"," ","o","v","e","r","l","a","y">>,
       <<"p","a","n","e","l","-","o","v","e","r","l","a","y">> >>,
    << <<"p","l","a","y"," ","-"," ","w","i","n","d","o","w">>,
       <<"p","l","a","y","-","w","i","n","d","o","w">> >>,
    << <<"w","i","n","d","o","w"," ","-"," ","a","c","t","i","o","n","s">>,
       <<"w","i","n","d","o","w","-","a","c","t","i","o","n","s">> >>,
    << <<"w","i","n","d","o","w"," ","-"," ","b","t","n">>,
       <<"w","i","n","d","o","w","-","b","t","n">> >>,
    << <<"s","e","c","t","i","o","n"," ","-"," ","t","i","t","l","e">>,
       <<"s","e","c","t","i","o","n","-","t","i","t","l","e">> >>,
    << <<"m","o","d","e"," ","-"," ","b","u","t","t","o","n","s">>,
       <<"m","o","d","e","-","b","u","t","t","o","n","s">> >>,
    << <<"g","a","m","e"," ","-"," ","t","y","p","e">>,
       <<"g","a","m","e","-","t","y","p","e">> >>,
    << <<"b","t","n"," ","-"," ","l","a","b","e","l">>,
       <<"b","t","n","-","l","a","b","e","l">> >>,
    << <<"b","t","n"," ","-"," ","i","c","o","n">>,
       <<"b","t","n","-","i","c","o","n">> >>
  >>

prose_phrases ==
  <<
    << <<"F","r","e","e"," ","-","f","o","r","-","A","l","l">>,
       <<"F","r","e","e","-","f","o","r","-","A","l","l">> >>,
    << <<"C","o"," ","-"," ","o","p">>,
       <<"C","o","-","o","p">> >>,
    << <<"F","r","e","e"," ","-"," ","f","o","r"," ","-"," ","A","l","l">>,
       <<"F","r","e","e","-","f","o","r","-","A","l","l">> >>
  >>

\* str.replace(old, new): every non-overlapping occurrence, from the left;
\* a string without an occurrence is returned as it is.
Replace(s, old, new) ==
  IF \E i \in 1..Len(s) : LiteralAt(s, i, old)
  THEN Substitute(s, [i \in 1..Len(s) |->
                        IF LiteralAt(s, i, old) THEN <<i + Len(old), new>>
                        ELSE NoMatch], 1)
  ELSE s

\* A variant that treats the pairs as alternatives: only the first pair of
\* lo..hi that occurs in s is replaced.
RECURSIVE ReplaceChain_FirstHitOnly(_, _, _, _)
ReplaceChain_FirstHitOnly(s, table, lo, hi) ==
  IF lo = hi THEN Replace(s, table[lo][1], table[lo][2])
  ELSE LET mid == (lo + hi) \div 2
           half == ReplaceChain_FirstHitOnly(s, table, lo, mid)
       IN  IF half # s THEN half
           ELSE ReplaceChain_FirstHitOnly(s, table, mid + 1, hi)

\* The replace calls lo..hi of a table, in the order of the table, each on
\* the result of the one before.  The calls are grouped in halves, and the
\* result of the first half is looked at before the second starts, only to
\* keep the evaluation shallow.
RECURSIVE ReplaceChain(_, _, _, _)
ReplaceChain(s, table, lo, hi) ==
  IF lo = hi THEN Replace(s, table[lo][1], table[lo][2])
  ELSE LET mid == (lo + hi) \div 2
           half == ReplaceChain(s, table, lo, mid)
       IN  IF half = <<>> THEN <<>>
           ELSE ReplaceChain(half, table, mid + 1, hi)

Pass6(s) ==
  IF s = <<>> THEN <<>>
  ELSE ReplaceChain(s, selector_strings, 1, Len(selector_strings))

Pass7(s) ==
  IF s = <<>> THEN <<>>
  ELSE ReplaceChain(s, prose_phrases, 1, Len(prose_phrases))

\* Lines 12 to 121: the seven passes in order.
Pipeline(s) == Pass7(Pass6(Pass5(Pass4(Pass3(Pass2(Pass1(s)))))))

(***************************************************************************)
(* File input and output in text mode.                                     *)
(***************************************************************************)
\* file_path is a Windows path, so os.linesep is "\r\n".
linesep == <<"\r", "\n">>

\* f.read() of a file opened with open(file_path, "r"): universal
\* newlines, "\r\n" and a lone "\r" are read as "\n".
Decode(bytes) ==
  Substitute(bytes,
             [i \in 1..Len(bytes) |->
                IF bytes[i] = "\r"
                THEN <<IF At(bytes, i + 1) = "\n" THEN i + 2 ELSE i + 1,
                       <<"\n">> >>
                ELSE NoMatch], 1)

\* f.write(content) to a file opened with open(file_path, "w"): every "\n"
\* is written as os.linesep.
Encode(text) == Replace(text, <<"\n">>, linesep)

FixedMsg == "Fixed corruption in menu.ts"

NoChangeMsg == "No changes needed"

(***************************************************************************)
(* The documents a run may find in the file.                               *)
(***************************************************************************)
\* '<div class="mp - room - details"> text </ div>'
FullScenarioInput ==
  <<"<","d","i","v"," ","c","l","a","s","s","=","\"","m","p"," ","-"," ",
    "r","o","o","m"," ","-"," ","d","e","t","a","i","l","s","\"",">"," ",
    "t","e","x","t"," ","<","/"," ","d","i","v",">">>

\* '<div class="mp-room-details"> text </div>'
FullScenarioOutput ==
  <<"<","d","i","v"," ","c","l","a","s","s","=","\"","m","p","-","r","o",
    "o","m","-","d","e","t","a","i","l","s","\"",">"," ","t","e","x","t",
    " ","<","/","d","i","v",">">>

\* 'data - order = "x"'
SpacedEqualsAttr ==
  <<"d","a","t","a"," ","-"," ","o","r","d","e","r"," ","="," ","\"","x",
    "\"">>

\* 'data - foo - bar='
TwoHyphenAttr ==
  <<"d","a","t","a"," ","-"," ","f","o","o"," ","-"," ","b","a","r","=">>

\* '</   span>'
ClosingSpan ==
  <<"<","/"," "," "," ","s","p","a","n",">">>

\* '< div class'
OpeningDiv ==
  <<"<"," ","d","i","v"," ","c","l","a","s","s">>

\* 'data - order='
OneHyphenAttr ==
  <<"d","a","t","a"," ","-"," ","o","r","d","e","r","=">>

\* 'style = "color:red"'
StyleAttr ==
  <<"s","t","y","l","e"," ","="," ","\"","c","o","l","o","r",":","r","e",
    "d","\"">>

\* 'box - shadow: 2px'
BoxShadow ==
  <<"b","o","x"," ","-"," ","s","h","a","d","o","w",":"," ","2","p","x">>

\* 'Free - For:'
FreeFor ==
  <<"F","r","e","e"," ","-"," ","F","o","r",":">>

\* '.mp-mode - btn'
ModeBtn ==
  <<".","m","p","-","m","o","d","e"," ","-"," ","b","t","n">>

\* 'Co - op'
CoOp ==
  <<"C","o"," ","-"," ","o","p">>

\* 'Free -for-All'
FreeForAll ==
  <<"F","r","e","e"," ","-","f","o","r","-","A","l","l">>

\* 'checkbox - shadow'
CheckboxShadow ==
  <<"c","h","e","c","k","b","o","x"," ","-"," ","s","h","a","d","o","w">>

\* '</ div>\r\n< div>\n'
TwoLines ==
  <<"<","/"," ","d","i","v",">","\r","\n","<"," ","d","i","v",">","\n">>

Scenarios ==
  { FullScenarioInput, FullScenarioOutput, SpacedEqualsAttr, TwoHyphenAttr,
    ClosingSpan, OpeningDiv, OneHyphenAttr, StyleAttr, BoxShadow, FreeFor,
    ModeBtn, CoOp, FreeForAll, CheckboxShadow, TwoLines }

\* The longest enumerated document of each family, in fragments.
MaxTokens == 3

MaxTagTokens == 4

MaxCssTokens == 4

\* Fragments of corrupted markup: spaced tag openers, a spaced hyphen, a
\* spaced equals sign before a quote, a plain word, a known CSS property
\* prefix, a line break.
Tokens ==
  { <<"<", "/", " ">>, <<"<", " ">>, <<">">>, <<"a">>, <<" ", "-", " ">>,
    <<" ", "=", " ", "\"">>, <<"=">>, <<"b", "o", "x">>, <<"\n">>,
    <<" ">> }

\* Fragments of tags: delimiters, a space, a tag name alone and closed,
\* and the two spaced openers.
TagTokens ==
  { <<"<">>, <<"/">>, <<">">>, <<" ">>, <<"a">>, <<"a", ">">>,
    <<"<", " ">>, <<"<", "/", " ">> }

\* Fragments of style declarations: two known prefixes, an unknown word,
\* an underscore, and hyphens with and without spaces.
CssTokens ==
  { <<"b", "o", "x">>, <<"f", "o", "n", "t">>, <<"a">>, <<"_">>, <<" ">>,
    <<"-">>, <<" ", "-", " ">> }

RECURSIVE Flatten(_)
Flatten(toks) ==
  IF toks = <<>> THEN <<>> ELSE Head(toks) \o Flatten(Tail(toks))

TokenDocs(T, n) == {Flatten(t) : t \in UNION {[1..k -> T] : k \in 0..n}}

\* The state before the script starts, the file holding document d.
Start(d) ==
  /\ disk = d
  /\ initial_file = d
  /\ pc = "start"
  /\ content = <<>>
  /\ original_content = <<>>
  /\ before = <<>>
  /\ passes_changed = {}
  /\ stdout = <<>>
  /\ syscalls = <<>>

\* The keys of the pass 6 table, and their first and last words.
SelectorKeys == {selector_strings[k][1] : k \in 1..Len(selector_strings)}

FirstWord(s) == SubSeq(s, 1, RunEnd(s, 1, AllChars \ {" "}) - 1)

LastWord(s) ==
  LET spaces == {i \in 1..Len(s) : s[i] = " "}
  IN  SubSeq(s, (CHOOSE i \in spaces : \A j \in spaces : j <= i) + 1, Len(s))

\* Tokens with several corrupted hyphens whose adjacent word pairs are each
\* a key of the table: a key continued by a key that starts with its last
\* word, and such a token continued once more.
Continue(s, key) == s \o SubSeq(key, Len(FirstWord(key)) + 1, Len(key))

ChainDocs2 ==
  {Continue(a, b) : <<a, b>> \in
     {ab \in SelectorKeys \X SelectorKeys : LastWord(ab[1]) = FirstWord(ab[2])}}

ChainDocs3 ==
  {Continue(c, b) : <<c, b>> \in
     {cb \in ChainDocs2 \X SelectorKeys : LastWord(cb[1]) = FirstWord(cb[2])}}

ChainDocs == ChainDocs2 \cup ChainDocs3

TagDocs == TokenDocs(TagTokens, MaxTagTokens)

CssDocs ==
  TokenDocs(CssTokens, MaxCssTokens) \cup {BoxShadow, FreeFor, CheckboxShadow}

Init ==
  \E d \in TokenDocs(Tokens, MaxTokens) \cup Scenarios \cup ChainDocs : Start(d)

InitTags == \E d \in TagDocs : Start(d)

InitCss == \E d \in CssDocs : Start(d)

(***************************************************************************)
(* The steps of the run.                                                   *)
(***************************************************************************)
\* Lines 6-9: open for reading, read, keep the snapshot.
Read ==
  /\ pc = "start"
  /\ content' = Decode(disk)
  /\ original_content' = Decode(disk)
  /\ syscalls' = syscalls \o <<"open_r", "read">>
  /\ pc' = "read"
  /\ UNCHANGED <<disk, initial_file, before, passes_changed, stdout>>

\* Lines 6-7 raising: the file is missing, unreadable or not UTF-8.
ReadFail ==
  /\ pc = "start"
  /\ syscalls' = Append(syscalls, "open_r")
  /\ pc' = "failed"
  /\ UNCHANGED <<disk, initial_file, content, original_content, before,
                 passes_changed, stdout>>

\* content = <pass n>(content); before and passes_changed record what the
\* pass was given and whether it changed it.
ApplyPass(n, from, to, result) ==
  /\ pc = from
  /\ content' = result
  /\ before' = content
  /\ passes_changed' =
       IF result # content THEN passes_changed \cup {n} ELSE passes_changed
  /\ pc' = to
  /\ UNCHANGED <<disk, initial_file, original_content, stdout, syscalls>>

DoPass1 == ApplyPass(1, "read", "pass1", Pass1(content))

DoPass2 == ApplyPass(2, "pass1", "pass2", Pass2(content))

DoPass3 == ApplyPass(3, "pass2", "pass3", Pass3(content))

DoPass4 == ApplyPass(4, "pass3", "pass4", Pass4(content))

DoPass5 == ApplyPass(5, "pass4", "pass5", Pass5(content))

DoPass6 == ApplyPass(6, "pass5", "pass6", Pass6(content))

DoPass7 == ApplyPass(7, "pass6", "pass7", Pass7(content))

\* A variant of the condition of line 123 that always takes the write
\* branch.
Changed_Always == TRUE

\* Line 123, the condition of the write branch.
Changed == content # original_content

\* Line 124: open(file_path, "w") truncates the file.
OpenWrite ==
  /\ pc = "pass7"
  /\ Changed
  /\ disk' = <<>>
  /\ syscalls' = Append(syscalls, "open_w")
  /\ pc' = "opened"
  /\ UNCHANGED <<initial_file, content, original_content, before,
                 passes_changed, stdout>>

\* Line 124 raising (the file is not writable): nothing is truncated.
OpenWriteFail ==
  /\ pc = "pass7"
  /\ Changed
  /\ syscalls' = Append(syscalls, "open_w_error")
  /\ pc' = "failed"
  /\ UNCHANGED <<disk, initial_file, content, original_content, before,
                 passes_changed, stdout>>

\* Line 125 and the close of the with block: the whole content is written.
Write ==
  /\ pc = "opened"
  /\ disk' = Encode(content)
  /\ syscalls' = Append(syscalls, "write")
  /\ pc' = "written"
  /\ UNCHANGED <<initial_file, content, original_content, before,
                 passes_changed, stdout>>

\* A variant in which the error of the write is swallowed and the run goes
\* on to line 126.
WriteFail_Swallowed ==
  /\ pc = "opened"
  /\ \E n \in 0..(Len(Encode(content)) - 1) :
       disk' = SubSeq(Encode(content), 1, n)
  /\ syscalls' = Append(syscalls, "write_error")
  /\ pc' = "written"
  /\ UNCHANGED <<initial_file, content, original_content, before,
                 passes_changed, stdout>>

\* Line 125 or the flush at close raising (disk full, device error): some
\* proper prefix of the output has reached the file.
WriteFail ==
  /\ pc = "opened"
  /\ \E n \in 0..(Len(Encode(content)) - 1) :
       disk' = SubSeq(Encode(content), 1, n)
  /\ syscalls' = Append(syscalls, "write_error")
  /\ pc' = "failed"
  /\ UNCHANGED <<initial_file, content, original_content, before,
                 passes_changed, stdout>>

\* Line 126.
PrintFixed ==
  /\ pc = "written"
  /\ stdout' = Append(stdout, FixedMsg)
  /\ pc' = "done"
  /\ UNCHANGED <<disk, initial_file, content, original_content, before,
                 passes_changed, syscalls>>

\* Lines 127-128.
PrintNoChange ==
  /\ pc = "pass7"
  /\ ~Changed
  /\ stdout' = Append(stdout, NoChangeMsg)
  /\ pc' = "done"
  /\ UNCHANGED <<disk, initial_file, content, original_content, before,
                 passes_changed, syscalls>>

Next ==
  \/ Read
  \/ ReadFail
  \/ DoPass1
  \/ DoPass2
  \/ DoPass3
  \/ DoPass4
  \/ DoPass5
  \/ DoPass6
  \/ DoPass7
  \/ OpenWrite
  \/ OpenWriteFail
  \/ Write
  \/ WriteFail
  \/ PrintFixed
  \/ PrintNoChange

\* Runs over the general fragments and the named documents.
Spec == Init /\ [][Next]_vars

\* Runs over documents made of tag fragments.
SpecTags == InitTags /\ [][Next]_vars

\* Runs over documents made of style-declaration fragments.
SpecCss == InitCss /\ [][Next]_vars

(***************************************************************************)
(* What the properties speak of.                                           *)
(***************************************************************************)
\* The run has ended, normally or with an I/O error.
Terminal == pc \in {"done", "failed"}

\* The pass states, and the states after the last pass.
PassStates ==
  {"pass1", "pass2", "pass3", "pass4", "pass5", "pass6", "pass7"}

AfterPasses == {"pass7", "opened", "written", "done"}

\* open(file_path, "w") has been called, successfully or not.
WriteAttempted ==
  \E k \in 1..Len(syscalls) : syscalls[k] \in {"open_w", "open_w_error"}

\* The write of line 125 has completed.
FileRewritten == \E k \in 1..Len(syscalls) : syscalls[k] = "write"

ReadDone == \E k \in 1..Len(syscalls) : syscalls[k] = "read"

\* s with all whitespace removed.
Strip(s) == SelectSeq(s, LAMBDA c : c \notin Whitespace)

\* A whitespace-hyphen-whitespace occurrence starts at g.
SpacedHyphenAt(s, g) ==
  /\ At(s, g) \in Whitespace
  /\ At(s, g + 1) = "-"
  /\ At(s, g + 2) \in Whitespace

(***************************************************************************)
(* C1                                                                      *)
(***************************************************************************)
\* C1: the file is opened for writing if and only if at least one of the
\* seven passes changed the working content, which is the case exactly
\* when the final content differs from original_content; a run whose
\* pipeline returns its input issues no write and leaves the file as it
\* found it.
C1_WriteIffChanged ==
  /\ WriteAttempted => passes_changed # {}
  /\ disk # initial_file => WriteAttempted
  /\ (pc \in AfterPasses \/ Terminal) =>
       ((passes_changed # {}) <=> (content # original_content))
  /\ Terminal => (WriteAttempted <=> (passes_changed # {}))
  /\ (Terminal /\ ReadDone /\ Pipeline(original_content) = original_content)
       => (~WriteAttempted /\ disk = initial_file)

\* C1 witness: a run in which passes changed the content and the file was
\* written.
C1_Witness == pc = "written" /\ passes_changed # {} /\ disk # initial_file

(***************************************************************************)
(* C2                                                                      *)
(***************************************************************************)
\* C2: the pipeline is idempotent: the content that the seven passes
\* produce is left unchanged by the seven passes.
C2_Idempotent == pc = "pass7" => Pipeline(content) = content

(***************************************************************************)
(* C3                                                                      *)
(***************************************************************************)
\* C3: when the run has ended, with or without an I/O error, the file
\* holds exactly what the run found in it or exactly the complete output
\* of the seven passes.
C3_IntactOrReplaced ==
  Terminal => (disk = initial_file \/ disk = Encode(content))

(***************************************************************************)
(* C4                                                                      *)
(***************************************************************************)
\* C4: a run that ends without an I/O error has printed exactly one status
\* line, the "Fixed" line if the file was rewritten in the run and the
\* "No changes needed" line otherwise; the "Fixed" line is printed only
\* once the write has completed; nothing is printed before the end of
\* the run or by a run that failed.
C4_OneStatusLine ==
  /\ pc # "done" => stdout = <<>>
  /\ pc = "done" =>
       /\ Len(stdout) = 1
       /\ stdout[1] = IF FileRewritten THEN FixedMsg ELSE NoChangeMsg
       /\ FileRewritten =>
            /\ syscalls[Len(syscalls)] = "write"
            /\ disk = Encode(content)

\* C4 witness: a run that rewrote the file and printed the "Fixed" line.
C4_Witness == pc = "done" /\ stdout = <<FixedMsg>> /\ FileRewritten

(***************************************************************************)
(* C5                                                                      *)
(***************************************************************************)
\* A chain document with the spaces around its hyphens removed.
Unspaced(s) == SelectSeq(s, LAMBDA c : c # " ")

\* C5: a token with several corrupted hyphens whose adjacent word pairs
\* are each a key of the pass 6 table is fully repaired in one run; the
\* full scenario of the spec ends as '<div class="mp-room-details"> text
\* </div>', pass 1 repairing the closing tag and pass 6 the class value,
\* where the 'room - details' entry and then the 'mp - room' entry fire.
C5_ChainsRepaired ==
  /\ (pc = "pass7" /\ original_content \in ChainDocs) =>
       content = Unspaced(original_content)
  /\ (pc = "pass7" /\ original_content = FullScenarioInput) =>
       (content = FullScenarioOutput /\ passes_changed = {1, 6})
  /\ (pc = "pass6" /\ original_content = FullScenarioInput) =>
       LET first == Replace(before, selector_strings[4][1],
                            selector_strings[4][2])
       IN  /\ first # before
           /\ Replace(first, selector_strings[5][1], selector_strings[5][2])
                # first

\* C5 witness: the run on the full scenario has finished its passes.
C5_Witness ==
  pc = "pass7" /\ original_content = FullScenarioInput
    /\ content = FullScenarioOutput

(***************************************************************************)
(* C6                                                                      *)
(***************************************************************************)
\* '</' at i, whitespace from i + 2 to w - 1, an alphanumeric at w.
SpacedCloserAt(s, i, w) ==
  /\ At(s, i) = "<"
  /\ At(s, i + 1) = "/"
  /\ w > i + 2
  /\ \A k \in (i + 2)..(w - 1) : s[k] \in Whitespace
  /\ At(s, w) \in Alnum

HasSpacedCloser(s) ==
  \E i \in 1..Len(s) : \E w \in i..Len(s) : SpacedCloserAt(s, i, w)

\* The same, with the tag name running up to a '>'.
HasSpacedClosedTag(s) ==
  \E i \in 1..Len(s) : \E w \in i..Len(s) :
    /\ SpacedCloserAt(s, i, w)
    /\ \E e \in w..Len(s) :
         /\ \A k \in w..(e - 1) : s[k] \in Alnum
         /\ s[e] = ">"

\* C6 as stated: after pass 1 the content contains no '</' followed by
\* whitespace and an alphanumeric character, whatever follows the name.
C6_NoSpacedCloser == pc = "pass1" => ~HasSpacedCloser(content)

\* C6 amended: after pass 1 the content contains no '</' followed by
\* whitespace, an alphanumeric name and '>'; a document without such an
\* occurrence is returned by pass 1 as it is.
C6_NoSpacedClosedTag ==
  pc = "pass1" =>
    /\ ~HasSpacedClosedTag(content)
    /\ ~HasSpacedClosedTag(before) => content = before

\* C6 witness: pass 1 has repaired a spaced closing tag.
C6_Witness ==
  pc = "pass1" /\ HasSpacedClosedTag(before) /\ content # before

(***************************************************************************)
(* C7                                                                      *)
(***************************************************************************)
\* The maximal run of word characters that ends just before g.
PrecedingWord(s, g) ==
  LET b == CHOOSE x \in 1..g :
             /\ \A k \in x..(g - 1) : s[k] \in WordChars
             /\ At(s, x - 1) \notin WordChars
  IN  SubSeq(s, b, g - 1)

ListedPrefixes == {known_css_props[k] : k \in 1..Len(known_css_props)}

ListedGapAt(s, g) ==
  SpacedHyphenAt(s, g) /\ PrecedingWord(s, g) \in ListedPrefixes

UnlistedGapAt(s, g) ==
  SpacedHyphenAt(s, g) /\ PrecedingWord(s, g) \notin ListedPrefixes

\* The positions of the characters of s that are not whitespace, and the
\* whitespace run that follows the j-th of them (j = 0: the leading run).
NonWsPos(s) ==
  SelectSeq([i \in 1..Len(s) |-> i], LAMBDA i : s[i] \notin Whitespace)

RunAfter(s, j) ==
  LET P == NonWsPos(s)
  IN  SubSeq(s, IF j = 0 THEN 1 ELSE P[j] + 1,
                IF j = Len(P) THEN Len(s) ELSE P[j + 1] - 1)

\* The run that the whitespace at position p of s belongs to.
RunIndex(s, p) == Cardinality({i \in 1..p : s[i] \notin Whitespace})

\* t is s with whitespace deleted, and the whitespace run of s that holds
\* position p is in t as it is in s.
KeptIn(s, t, p) == RunAfter(t, RunIndex(s, p)) = RunAfter(s, RunIndex(s, p))

\* C7 as stated: pass 5 leaves unchanged every whitespace-hyphen-whitespace
\* occurrence whose immediately preceding maximal run of word characters
\* is not one of the fifteen listed prefixes.
C7_UnlistedUntouched ==
  pc = "pass5" =>
    /\ Strip(content) = Strip(before)
    /\ \A g \in 1..Len(before) :
         UnlistedGapAt(before, g) =>
           (KeptIn(before, content, g) /\ KeptIn(before, content, g + 2))

\* C7 amended: pass 5 deletes nothing but whitespace, and every
\* whitespace character it deletes stands directly before or directly
\* after the hyphen of a whitespace-hyphen-whitespace occurrence whose
\* immediately preceding maximal run of word characters is one of the
\* fifteen listed prefixes; 'Free - For:' and 'checkbox - shadow' are
\* unchanged, and so is every document with no listed prefix directly
\* before such an occurrence.
C7_OnlyListedGapsTouched ==
  pc = "pass5" =>
    /\ Strip(content) = Strip(before)
    /\ \A p \in 1..Len(before) :
         (before[p] \in Whitespace /\ ~KeptIn(before, content, p)) =>
           /\ RunAfter(before, RunIndex(before, p)) = <<before[p]>>
           /\ RunAfter(content, RunIndex(before, p)) = <<>>
           /\ ListedGapAt(before, p) \/ ListedGapAt(before, p - 2)
    /\ (\A g \in 1..Len(before) : ~ListedGapAt(before, g)) =>
         content = before
    /\ before \in {FreeFor, CheckboxShadow} => content = before

\* C7 witness: pass 5 has repaired a listed occurrence and kept an
\* unlisted one in the same document.
C7_Witness ==
  /\ pc = "pass5"
  /\ content # before
  /\ \E g \in 1..Len(before) :
       /\ UnlistedGapAt(before, g)
       /\ KeptIn(before, content, g)
       /\ KeptIn(before, content, g + 2)

(***************************************************************************)
(* C8                                                                      *)
(***************************************************************************)
\* From i on: alphanumeric words joined by hyphens, spaced or not, the
\* last one directly followed by '='.
RECURSIVE ChainToEquals(_, _)
ChainToEquals(s, i) ==
  LET e == RunEnd(s, i, Alnum)
  IN  /\ e > i
      /\ \/ At(s, e) = "="
         \/ SpacedHyphenAt(s, e) /\ ChainToEquals(s, e + 3)
         \/ At(s, e) = "-" /\ ChainToEquals(s, e + 1)

\* C8: after pass 3 every gap of a chain 'w1 - w2 - ... - wn=' has been
\* collapsed: no alphanumeric word is followed by a spaced hyphen and the
\* rest of such a chain.
C8_AllGapsCollapsed ==
  pc = "pass3" =>
    \A g \in 1..Len(content) :
      ~(/\ At(content, g - 1) \in Alnum
        /\ SpacedHyphenAt(content, g)
        /\ ChainToEquals(content, g + 3))

(***************************************************************************)
(* C9                                                                      *)
(***************************************************************************)
\* C9 as stated: there is a document on which pass 2 before pass 1 and
\* pass 1 before pass 2 yield different contents.  The statement does not
\* depend on the state of the run; it is looked at once, before the run on
\* the empty file starts.
C9_OrderMatters ==
  (pc = "start" /\ disk = <<>>) =>
    \E d \in TagDocs : Pass2(Pass1(Decode(d))) # Pass1(Pass2(Decode(d)))

\* C9 amended: passes 1 and 2 commute: on every document, pass 2 after
\* pass 1 yields the content that pass 1 after pass 2 yields.
C9_PassesCommute ==
  pc = "pass2" => content = Pass1(Pass2(original_content))

\* C9 witness: both passes have changed the same document.
C9_Witness == pc = "pass2" /\ passes_changed = {1, 2}

(***************************************************************************)
(* C10                                                                     *)
(***************************************************************************)
\* C10: after each pass the content with all whitespace removed equals
\* original_content with all whitespace removed (and so equals what the
\* pass received, with all whitespace removed), and the pass has not made
\* the content longer.
C10_OnlyWhitespaceDeleted ==
  /\ (pc \in PassStates \/ pc \in AfterPasses) =>
       Strip(content) = Strip(original_content)
  /\ pc \in PassStates =>
       (Strip(content) = Strip(before) /\ Len(content) <= Len(before))

\* C10 witness: a run in which two or more passes changed the content.
C10_Witness == pc = "pass7" /\ Cardinality(passes_changed) >= 2

====
